---- MODULE Spec2Model ----
(***************************************************************************)
(* Model of the server-side pipeline of CRT-Client-app: the ingestion      *)
(* queue (netlify/functions/message-queue.js), the retry core and the      *)
(* dead-letter sink (netlify/functions/error-recovery.js), the worker      *)
(* pipeline processMessage and the two entry points that drain the queue   *)
(* (meta-webhook-handler.js and process-message-queue.js), the signature   *)
(* check of the event endpoint (webhook-security.js) and the session      *)
(* store (netlify/functions/session-manager.js).                           *)
(*                                                                         *)
(* Every await on the data service is a suspension point: the requests     *)
(* served concurrently interleave there, so each such call is one step of  *)
(* the request that issues it.  A data-service call may fail; the number   *)
(* of failures injected in one behaviour is bounded by MaxFaults.          *)
(***************************************************************************)
EXTENDS Integers, Sequences, FiniteSets, TLC

\* ---------------------------------------------------------------- bounds
MaxEvents == 1        \* rows ever inserted into message_queue
MaxFaults == 1        \* failing data-service calls per behaviour
MaxRequests == 4      \* HTTP requests served per behaviour
MaxBodyEvents == 2    \* messaging events in the body of one POST
MaxOrderRequests == 2 \* calls of the drain endpoint on two queued events
MaxSessionEvents == 2 \* events processed against the session store
MaxExpiryEvents == 1  \* events processed while time passes
MaxClock == 2         \* hours that pass while events are processed
MaxCalls == 6              \* invocations of asyncFunction by the hook

\* ------------------------------------------------------ program constants
RetryLimit == 3            \* getPendingMessages: .lt('retry_count', 3)
DefaultBatchSize == 5      \* process-message-queue.js: batchSize default
InlineBatchSize == 2       \* handler: processPendingMessages(processMessage, 2)
AiMaxRetries == 3          \* processMessage: callVoiceflow maxRetries
ConnMaxRetries == 3        \* processMessage: getSocialConnection maxRetries
DefaultMaxRetries == 3     \* retryWithBackoff: maxRetries default
HookMaxRetries == 3        \* useAsyncCall: maxRetries default
SESSION_EXPIRY_HOURS == 8760   \* session-manager.js: 365 days
HistoryLimit == 50         \* updateSessionContext: conversationHistory.length > 50

\* The two entry points that drain the queue; each serves one request at
\* a time, and the two run concurrently.
DrainEndpoint == "drain"      \* process-message-queue.js
EventEndpoint == "webhook"    \* meta-webhook-handler.js, POST
Workers == {DrainEndpoint, EventEndpoint}
NULL == 0

VARIABLES
  message_queue,              \* table message_queue, in created_at order; id = index
  message_processing_status,  \* table message_processing_status: for each
                              \* message_queue_id its rows, in insertion order
  messages,                   \* table messages, in insertion order
  message_dead_letters,       \* table message_dead_letters, in insertion order
  worker,                     \* per concurrent request: its position and locals
  faults,                     \* data-service failures injected so far
  requests,                   \* requests started so far
  user_sessions,              \* table user_sessions, in insertion order; id = index
  conversations,              \* table conversations, in insertion order; id = index
  clock,                      \* wall-clock time, in hours
  http,                       \* the webhook POST being handled and its response
  appended                    \* history: the entries pushed to the conversation
                              \* history of session 1, in the order they were written

\* The tables of the session store, the clock and the request record of
\* the event endpoint: the specification of the queue leaves them as they are.
storeVars == <<user_sessions, conversations, clock, http, appended>>

vars == <<message_queue, message_processing_status, messages,
          message_dead_letters, worker, faults, requests,
          user_sessions, conversations, clock, http, appended>>

\* ----------------------------------------------------------------- helpers
Min(a, b) == IF a <= b THEN a ELSE b

\* The first n elements of s (all of s when it is shorter).
Take(s, n) == SubSeq(s, 1, Min(n, Len(s)))

\* ------------------------------------------------------------------ errors
\* An error value: the tag of its message and the HTTP status of
\* error.response (0 when the error carries no response).
Err(m, st) == [msg |-> m, status |-> st]
NoError == Err("none", 0)

\* Messages that isTransientError recognises by substring.
TransientMsgs == {"ECONNRESET", "ETIMEDOUT", "ENOTFOUND", "network",
                  "Database connection is not available"}

IsTransientError(error) ==
  \/ error.msg \in TransientMsgs
  \/ error.status \in {429, 503, 504}
  \/ (error.status >= 500 /\ error.status < 600)

\* What a failing data-service call reports: an error whose message is
\* recognised as transient, or any other one.
DataServiceErrors == {Err("network", 0), Err("PostgrestError", 0)}

\* The shouldRetry predicates the callers pass to retryWithBackoff.
ShouldRetry(policy, error) ==
  CASE policy = "transient" -> IsTransientError(error)
    [] policy = "transientOr5xx" ->
         IsTransientError(error) \/ error.status >= 500
    [] OTHER -> TRUE

\* retryWithBackoff(fn, {maxRetries, shouldRetry}): script[k] is what the
\* k-th invocation of fn does (NoError: it returns).  The value is the
\* record of the run: whether fn returned, the error thrown otherwise and
\* the number of invocations of fn.
RECURSIVE RetryFrom(_, _, _, _)
RetryFrom(script, attempt, maxRetries, policy) ==
  LET error == script[attempt + 1] IN
  IF error = NoError
    THEN [ok |-> TRUE, error |-> NoError, calls |-> attempt + 1]
  ELSE IF attempt >= maxRetries \/ ~ShouldRetry(policy, error)
    THEN [ok |-> FALSE, error |-> error, calls |-> attempt + 1]
  ELSE RetryFrom(script, attempt + 1, maxRetries, policy)

retryWithBackoff_oneMore(script, maxRetries, policy) ==
  RetryFrom(script, 0, maxRetries + 1, policy)

retryWithBackoff(script, maxRetries, policy) ==
  RetryFrom(script, 0, maxRetries, policy)

\* -------------------------------------------------------------- dead letters
\* saveToDeadLetterQueue builds the row from the shorthand property
\* `user_id`, a name bound nowhere (the parameter is userId): evaluating it
\* throws a ReferenceError, the catch returns {success: false} and no row
\* reaches message_dead_letters.
saveToDeadLetterQueue(table, userId, message, errorMessage) ==
  table

\* ------------------------------------------------------------- processMessage
\* HTTP outcomes of the AI runtime: the call returns (200) or axios throws.
Http(st) == IF st = 200 THEN NoError ELSE Err("Request failed", st)

AiScripts ==
  { <<Http(200), Http(200), Http(200), Http(200)>>,
    <<Http(401), Http(200), Http(200), Http(200)>>,
    <<Http(503), Http(503), Http(200), Http(200)>>,
    <<Http(503), Http(503), Http(503), Http(503)>> }

\* What the collaborators of one processMessage call do: whether the
\* data-service client exists, whether a social connection, a Voiceflow
\* mapping and an API key are found, the AI runtime's answers, and whether
\* the provider accepts the reply.
Environments ==
  { e \in [supabase : BOOLEAN, connection : BOOLEAN, mapping : BOOLEAN,
           apiKey : BOOLEAN, ai : AiScripts, send : BOOLEAN] :
      /\ (~e.supabase => e.connection)
      /\ (~e.connection => e.mapping)
      /\ (~e.mapping => e.apiKey)
      /\ (~e.apiKey => e.ai = <<Http(200), Http(200), Http(200), Http(200)>>)
      /\ (e.ai # <<Http(200), Http(200), Http(200), Http(200)>> => e.send) }

\* The value processMessage returns.
Result(ok, tr, err, warn, mid) ==
  [success |-> ok, transient |-> tr, error |-> err, warning |-> warn,
   messageId |-> mid]

\* The catch of processMessage: every error becomes a returned value.
Caught(error) == Result(FALSE, IsTransientError(error), error.msg, FALSE, NULL)

UserMessage(mid) == [sender_type |-> "user", external_id |-> mid]
AssistantMessage == [sender_type |-> "assistant", external_id |-> NULL]

processMessage_replyBeforeAi(msgs, dead, mid, e) ==
  LET Out(r, m, d) == [result |-> r, messages |-> m, dead |-> d]
      conn == retryWithBackoff(
                [k \in 1..(ConnMaxRetries + 1) |->
                   IF e.connection THEN NoError ELSE Err("No connection found", 0)],
                ConnMaxRetries, "transient")
      withUser == Append(msgs, UserMessage(mid))
      ai == retryWithBackoff(e.ai, AiMaxRetries, "transientOr5xx")
      withReply == Append(withUser, AssistantMessage)
  IN
  IF ~e.supabase
    THEN Out(Caught(Err("Database connection is not available", 0)), msgs, dead)
  ELSE IF ~conn.ok
    THEN Out(Caught(conn.error), msgs, dead)
  ELSE IF ~e.mapping
    THEN Out(Caught(Err("No Voiceflow agent configured", 0)), withUser, dead)
  ELSE IF ~e.apiKey
    THEN Out(Caught(Err("No Voiceflow API key found", 0)), withUser, dead)
  ELSE IF ~ai.ok
    THEN Out(Caught(Err("Failed to process message with AI assistant", 0)),
             withReply,
             saveToDeadLetterQueue(dead, "tenant", mid, ai.error.msg))
  ELSE IF ~e.send
    THEN Out(Result(TRUE, FALSE, "none", TRUE, Len(withReply)), withReply, dead)
  ELSE Out(Result(TRUE, FALSE, "none", FALSE, Len(withReply)), withReply, dead)

\* processMessage on the queued message `mid` in environment e: the value
\* returned and the tables messages and message_dead_letters afterwards.
processMessage(msgs, dead, mid, e) ==
  LET Out(r, m, d) == [result |-> r, messages |-> m, dead |-> d]
      conn == retryWithBackoff(
                [k \in 1..(ConnMaxRetries + 1) |->
                   IF e.connection THEN NoError ELSE Err("No connection found", 0)],
                ConnMaxRetries, "transient")
      withUser == Append(msgs, UserMessage(mid))
      ai == retryWithBackoff(e.ai, AiMaxRetries, "transientOr5xx")
      withReply == Append(withUser, AssistantMessage)
  IN
  IF ~e.supabase
    THEN Out(Caught(Err("Database connection is not available", 0)), msgs, dead)
  ELSE IF ~conn.ok
    THEN Out(Caught(conn.error), msgs, dead)
  ELSE IF ~e.mapping
    THEN Out(Caught(Err("No Voiceflow agent configured", 0)), withUser, dead)
  ELSE IF ~e.apiKey
    THEN Out(Caught(Err("No Voiceflow API key found", 0)), withUser, dead)
  ELSE IF ~ai.ok
    THEN Out(Caught(Err("Failed to process message with AI assistant", 0)),
             withUser,
             saveToDeadLetterQueue(dead, "tenant", mid, ai.error.msg))
  ELSE IF ~e.send
    THEN Out(Result(TRUE, FALSE, "none", TRUE, Len(withReply)), withReply, dead)
  ELSE Out(Result(TRUE, FALSE, "none", FALSE, Len(withReply)), withReply, dead)

\* ------------------------------------------------------------------- state
\* A row of message_queue.  retry_count is not set by the insert of
\* queueMessage; the column default is 0.
QueueRow == [status |-> "pending", retry_count |-> 0, last_retry_at |-> NULL,
             error |-> "null", completed_at |-> NULL]

\* A row of message_processing_status; metadata is <<>> or <<result>>.
Trace(id, stage, status, metadata) ==
  [message_queue_id |-> id, stage |-> stage, status |-> status,
   metadata |-> metadata]

\* A request handler that serves nothing.
Idle == [pc |-> "idle", todo |-> 0, data |-> NULL,
         batchSize |-> 0,
         pendingMessages |-> <<>>, i |-> 0, message |-> QueueRow,
         processingError |-> NoError, result |-> <<>>, results |-> <<>>]

Init ==
  /\ message_queue = <<>>
  /\ message_processing_status = <<>>
  /\ messages = <<>>
  /\ message_dead_letters = <<>>
  /\ worker = [p \in Workers |-> Idle]
  /\ faults = 0
  /\ requests = 0
  /\ user_sessions = <<>>
  /\ conversations = <<>>
  /\ clock = 0
  /\ appended = <<>>
  /\ http = NULL

\* The time new Date() reads: it advances with every request accepted.
now == requests

\* A data-service call may fail while the budget lasts.
MayFail == faults < MaxFaults

\* ---------------------------------------------------------- getPendingMessages
\* .in('status', ['pending', 'failed']).lt('retry_count', 3)
Selectable(row) ==
  row.status \in {"pending", "failed"} /\ row.retry_count < RetryLimit

RECURSIVE SelectFrom(_, _)
SelectFrom(table, i) ==
  IF i > Len(table) THEN <<>>
  ELSE (IF Selectable(table[i]) THEN <<i>> ELSE <<>>) \o SelectFrom(table, i + 1)

\* .order('created_at', {ascending: true}).limit(limit): ids, oldest first.
getPendingMessages_noLimit(table, limit) == SelectFrom(table, 1)

getPendingMessages(table, limit) == Take(SelectFrom(table, 1), limit)

\* ------------------------------------------------------ markMessageAsProcessing
\* The update names the row by id alone: .eq('id', messageId).
\* supabase.raw('retry_count + 1') is read as the SQL expression it names;
\* a client without raw() makes the call throw, which is the failing
\* branch of Mark.
markMessageAsProcessing(table, id) ==
  [table EXCEPT ![id] = [@ EXCEPT !.status = "processing",
                                  !.last_retry_at = now,
                                  !.retry_count = @ + 1]]

\* ------------------------------------------------------- processPendingMessages
\* The loop of processPendingMessages moves to the next selected message
\* after pushing r to results, or returns after the last one.
NextMessage(w, r) ==
  IF w.i < Len(w.pendingMessages)
    THEN [w EXCEPT !.pc = "mark", !.i = @ + 1, !.message = QueueRow,
                   !.processingError = NoError, !.result = <<>>,
                   !.results = Append(@, r)]
    ELSE Idle

CurrentId(p) == worker[p].pendingMessages[worker[p].i]

\* ------------------------------------------------------------------ requests
\* The drain endpoint: processPendingMessages(processMessage, batchSize).
Drain(p, batchSize) ==
  /\ worker[p].pc = "idle"
  /\ requests < MaxRequests
  /\ requests' = requests + 1
  /\ worker' = [worker EXCEPT ![p] =
       [Idle EXCEPT !.pc = "select", !.batchSize = batchSize]]
  /\ UNCHANGED <<message_queue, message_processing_status, messages,
                 message_dead_letters, faults>>
  /\ UNCHANGED storeVars

\* The event endpoint, for a POST that passed validation and carries n
\* events to enqueue (n = 0: echoes only); the inline drain follows.
Webhook(p, n) ==
  /\ worker[p].pc = "idle"
  /\ requests < MaxRequests
  /\ Len(message_queue) + n <= MaxEvents
  /\ requests' = requests + 1
  /\ worker' = [worker EXCEPT ![p] =
       [Idle EXCEPT !.pc = IF n = 0 THEN "select" ELSE "enqueue",
                    !.todo = n,
                    !.batchSize = InlineBatchSize]]
  /\ UNCHANGED <<message_queue, message_processing_status, messages,
                 message_dead_letters, faults>>
  /\ UNCHANGED storeVars

\* queueMessage, first insert: the row, or the error is thrown and the
\* handler's catch answers 200 status:error.
QueueInsert(p) ==
  /\ worker[p].pc = "enqueue"
  /\ \/ /\ message_queue' = Append(message_queue, QueueRow)
        /\ message_processing_status' = Append(message_processing_status, <<>>)
        /\ worker' = [worker EXCEPT ![p].pc = "received",
                                    ![p].data = Len(message_queue) + 1]
        /\ UNCHANGED faults
     \/ /\ MayFail
        /\ faults' = faults + 1
        /\ worker' = [worker EXCEPT ![p] = Idle]
        /\ UNCHANGED <<message_queue, message_processing_status>>
  /\ UNCHANGED <<messages, message_dead_letters, requests>>
  /\ UNCHANGED storeVars

\* queueMessage, second insert: the 'received' trace of the row just
\* inserted.  The call's error field is not read, so a failure is silent.
QueueReceived(p) ==
  /\ worker[p].pc = "received"
  /\ \/ /\ message_processing_status' =
             [message_processing_status EXCEPT ![worker[p].data] =
                Append(@, Trace(worker[p].data, "received", "completed", <<>>))]
        /\ UNCHANGED faults
     \/ /\ MayFail
        /\ faults' = faults + 1
        /\ UNCHANGED message_processing_status
  /\ worker' = [worker EXCEPT ![p].todo = @ - 1,
                              ![p].data = NULL,
                              ![p].pc = IF worker[p].todo = 1
                                          THEN "select" ELSE "enqueue"]
  /\ UNCHANGED <<message_queue, messages, message_dead_letters, requests>>
  /\ UNCHANGED storeVars

\* processPendingMessages: getPendingMessages(batchSize); an error is
\* rethrown to the entry point, an empty selection returns at once.
Select(p) ==
  /\ worker[p].pc = "select"
  /\ \/ /\ LET sel == getPendingMessages(message_queue, worker[p].batchSize) IN
           worker' = [worker EXCEPT ![p] =
             IF sel = <<>> THEN Idle
             ELSE [@ EXCEPT !.pc = "mark", !.pendingMessages = sel, !.i = 1,
                            !.batchSize = 0]]
        /\ UNCHANGED faults
     \/ /\ MayFail
        /\ faults' = faults + 1
        /\ worker' = [worker EXCEPT ![p] = Idle]
  /\ UNCHANGED <<message_queue, message_processing_status, messages,
                 message_dead_letters, requests>>
  /\ UNCHANGED storeVars

\* processQueuedMessage: markMessageAsProcessing(messageId).  When it
\* throws, processPendingMessages records the failure and goes on.
Mark(p) ==
  /\ worker[p].pc = "mark"
  /\ \/ /\ message_queue' = markMessageAsProcessing(message_queue, CurrentId(p))
        /\ worker' = [worker EXCEPT ![p].pc = "fetch"]
        /\ UNCHANGED faults
     \/ /\ MayFail
        /\ faults' = faults + 1
        /\ worker' = [worker EXCEPT ![p] =
             NextMessage(@, [success |-> FALSE, messageId |-> CurrentId(p)])]
        /\ UNCHANGED message_queue
  /\ UNCHANGED <<message_processing_status, messages, message_dead_letters,
                 requests>>
  /\ UNCHANGED storeVars

\* processQueuedMessage: read the row back into `message`.
Fetch(p) ==
  /\ worker[p].pc = "fetch"
  /\ \/ /\ worker' = [worker EXCEPT ![p].pc = "started",
                                    ![p].message = message_queue[CurrentId(p)]]
        /\ UNCHANGED faults
     \/ /\ MayFail
        /\ faults' = faults + 1
        /\ worker' = [worker EXCEPT ![p] =
             NextMessage(@, [success |-> FALSE, messageId |-> CurrentId(p)])]
  /\ UNCHANGED <<message_queue, message_processing_status, messages,
                 message_dead_letters, requests>>
  /\ UNCHANGED storeVars

\* -------------------------------------------------------- updateProcessingStatus
\* The second statement of updateProcessingStatus: the overall status of
\* the queued message follows a failed stage or the final stage.
StatusAfterStage_onlyFailed(table, id, stage, status) ==
  IF status = "failed"
    THEN [table EXCEPT ![id] = [@ EXCEPT !.status = "failed",
                                         !.error = "Failed at stage"]]
  ELSE table

StatusAfterStage(table, id, stage, status) ==
  IF status = "failed"
    THEN [table EXCEPT ![id] = [@ EXCEPT !.status = "failed",
                                         !.error = "Failed at stage"]]
  ELSE IF stage = "response_sent" /\ status = "completed"
    THEN [table EXCEPT ![id] = [@ EXCEPT !.status = "completed",
                                         !.completed_at = now]]
  ELSE table

\* updateProcessingStatus once its insert succeeded: the trace row is
\* appended, then the queue row is updated; the update's error field is
\* not read, so when it fails the row silently keeps its status.
TraceWritten(id, stage, status, metadata) ==
  /\ message_processing_status' =
       [message_processing_status EXCEPT ![id] =
          Append(@, Trace(id, stage, status, metadata))]
  /\ \/ /\ message_queue' = StatusAfterStage(message_queue, id, stage, status)
        /\ UNCHANGED faults
     \/ /\ MayFail
        /\ StatusAfterStage(message_queue, id, stage, status) # message_queue
        /\ faults' = faults + 1
        /\ UNCHANGED message_queue

\* processQueuedMessage: updateProcessingStatus(id, 'processing_started',
\* 'completed').  A thrown error is caught as processingError.
Started(p) ==
  /\ worker[p].pc = "started"
  /\ \/ /\ TraceWritten(CurrentId(p), "processing_started", "completed", <<>>)
        /\ worker' = [worker EXCEPT ![p].pc = "process"]
     \/ /\ MayFail
        /\ faults' = faults + 1
        /\ \E error \in DataServiceErrors :
             worker' = [worker EXCEPT ![p].pc = "failed",
                                      ![p].processingError = error]
        /\ UNCHANGED <<message_queue, message_processing_status>>
  /\ UNCHANGED <<messages, message_dead_letters, requests>>
  /\ UNCHANGED storeVars

\* processQueuedMessage: result = await processorFunction(...), the
\* processor being processMessage, which returns in every case.
Process(p, e) ==
  /\ worker[p].pc = "process"
  /\ LET out == processMessage(messages, message_dead_letters, CurrentId(p), e) IN
       /\ messages' = out.messages
       /\ message_dead_letters' = out.dead
       /\ worker' = [worker EXCEPT ![p].pc = "sent",
                                   ![p].result = <<out.result>>]
  /\ UNCHANGED <<message_queue, message_processing_status, faults, requests>>
  /\ UNCHANGED storeVars

\* processQueuedMessage: updateProcessingStatus(id, 'response_sent',
\* 'completed', null, {result}) and return {success: true, ...}.
Sent(p) ==
  /\ worker[p].pc = "sent"
  /\ \/ /\ TraceWritten(CurrentId(p), "response_sent", "completed",
                        worker[p].result)
        /\ worker' = [worker EXCEPT ![p] =
             NextMessage(@, [success |-> TRUE, messageId |-> CurrentId(p)])]
     \/ /\ MayFail
        /\ faults' = faults + 1
        /\ \E error \in DataServiceErrors :
             worker' = [worker EXCEPT ![p].pc = "failed",
                                      ![p].processingError = error]
        /\ UNCHANGED <<message_queue, message_processing_status>>
  /\ UNCHANGED <<messages, message_dead_letters, requests>>
  /\ UNCHANGED storeVars

\* processQueuedMessage, catch (processingError):
\* updateProcessingStatus(id, 'processing_failed', 'failed', ...).  When
\* this call throws, the error leaves processQueuedMessage.
Failed(p) ==
  /\ worker[p].pc = "failed"
  /\ \/ /\ TraceWritten(CurrentId(p), "processing_failed", "failed", <<>>)
        /\ worker' = [worker EXCEPT ![p].pc = "requeue"]
     \/ /\ MayFail
        /\ faults' = faults + 1
        /\ worker' = [worker EXCEPT ![p] =
             NextMessage(@, [success |-> FALSE, messageId |-> CurrentId(p)])]
        /\ UNCHANGED <<message_queue, message_processing_status>>
  /\ UNCHANGED <<messages, message_dead_letters, requests>>
  /\ UNCHANGED storeVars

\* The last update of the catch: back to pending for a transient error
\* below the retry limit, failed otherwise.
StatusAfterError(table, id, processingError, message) ==
  IF IsTransientError(processingError) /\ message.retry_count < RetryLimit
    THEN [table EXCEPT ![id] = [@ EXCEPT !.status = "pending"]]
    ELSE [table EXCEPT ![id] = [@ EXCEPT !.status = "failed",
                                         !.error = "processingError"]]

\* processQueuedMessage, catch: the update above (its error field is not
\* read) and return {success: false, ...}.
Requeue(p) ==
  /\ worker[p].pc = "requeue"
  /\ LET after == StatusAfterError(message_queue, CurrentId(p),
                                   worker[p].processingError, worker[p].message)
     IN \/ /\ message_queue' = after
           /\ UNCHANGED faults
        \/ /\ MayFail
           /\ after # message_queue
           /\ faults' = faults + 1
           /\ UNCHANGED message_queue
  /\ worker' = [worker EXCEPT ![p] =
       NextMessage(@, [success |-> FALSE, messageId |-> CurrentId(p)])]
  /\ UNCHANGED <<message_processing_status, messages, message_dead_letters,
                 requests>>
  /\ UNCHANGED storeVars

BatchSizes == {1, DefaultBatchSize}

Next ==
  \/ \E b \in BatchSizes : Drain(DrainEndpoint, b)
  \/ \E n \in 0..MaxEvents : Webhook(EventEndpoint, n)
  \/ \E p \in Workers : QueueInsert(p)
  \/ \E p \in Workers : QueueReceived(p)
  \/ \E p \in Workers : Select(p)
  \/ \E p \in Workers : Mark(p)
  \/ \E p \in Workers : Fetch(p)
  \/ \E p \in Workers : Started(p)
  \/ \E p \in Workers, e \in Environments : Process(p, e)
  \/ \E p \in Workers : Sent(p)
  \/ \E p \in Workers : Failed(p)
  \/ \E p \in Workers : Requeue(p)

Spec == Init /\ [][Next]_vars

TypeOK ==
  /\ \A i \in 1..Len(message_queue) :
       message_queue[i].status \in {"pending", "processing", "completed", "failed"}
  /\ faults \in 0..MaxFaults
  /\ requests \in 0..MaxRequests

\* ============================================================ event endpoint
\* The POST branch of the handler of meta-webhook-handler.js with
\* validateWebhook of webhook-security.js.  One request is followed from
\* its arrival to its response; the inline drain runs as one step.

\* ------------------------------------------------------------ signatures
AppSecret == "app-secret"

\* createHmac(algo, key).update(body).digest('hex'): a value determined by
\* the three of them and different for different ones.
Hmac(algo, body, key) == <<algo, body, key>>

\* A signature header "<algo>=<hex>" is the pair of its two parts, or it
\* is Absent; the empty body.
Absent == <<>>
EmptyBody == <<>>

verifySignatureSHA1(signature, body, appSecret) ==
  /\ signature # Absent /\ body # EmptyBody /\ appSecret # ""
  /\ signature[1] = "sha1"
  /\ signature[2] = Hmac("sha1", body, appSecret)

verifySignatureSHA256(signature, body, appSecret) ==
  /\ signature # Absent /\ body # EmptyBody /\ appSecret # ""
  /\ signature[1] = "sha256"
  /\ signature[2] = Hmac("sha256", body, appSecret)

validateWebhook_anyHeader(headers, body, appSecret) ==
  body # EmptyBody /\ appSecret # "" /\ (headers.sha1 # Absent \/ headers.sha256 # Absent)

\* validateWebhook(headers, body, appSecret).valid
validateWebhook(headers, body, appSecret) ==
  IF body = EmptyBody \/ appSecret = "" THEN FALSE
  ELSE IF headers.sha1 = Absent /\ headers.sha256 = Absent THEN FALSE
  ELSE LET by256 == headers.sha256 # Absent
                      /\ verifySignatureSHA256(headers.sha256, body, appSecret)
       IN IF by256 THEN TRUE
          ELSE headers.sha1 # Absent
                 /\ verifySignatureSHA1(headers.sha1, body, appSecret)

\* ---------------------------------------------------------------- requests
\* The raw bodies: empty, not JSON, JSON of another object type, a page or
\* instagram object without its entry list, and one with messaging events.
BodyKinds == {"empty", "garbage", "other_object", "no_entry", "events"}

\* A messaging event of the body: a message, an echo (message.is_echo), a
\* postback, an instagram change with field 'messages', a delivery
\* receipt, and a message without its sender object.
EventKinds == {"message", "echo", "postback", "change", "receipt", "no_sender"}

RECURSIVE SeqsUpTo(_, _)
SeqsUpTo(S, n) ==
  IF n = 0 THEN {<<>>}
  ELSE LET shorter == SeqsUpTo(S, n - 1)
       IN shorter \cup {Append(q, x) : q \in shorter, x \in S}

Bodies ==
  {[kind |-> k, events |-> <<>>] : k \in BodyKinds \ {"events"}}
    \cup {[kind |-> "events", events |-> ev] :
            ev \in SeqsUpTo(EventKinds, MaxBodyEvents)}

\* The text of a body, as the HMAC sees it.
Raw(body) == IF body.kind = "empty" THEN EmptyBody ELSE <<body.kind, body.events>>

\* The values a signature header takes for a body: none, the HMAC under
\* the app secret, the HMAC under another key, the HMAC of another body,
\* and the right HMAC under the prefix of the other algorithm.
HeaderValues(algo, body) ==
  { Absent,
    <<algo, Hmac(algo, Raw(body), AppSecret)>>,
    <<algo, Hmac(algo, Raw(body), "other-key")>>,
    <<algo, Hmac(algo, <<"other-body", <<>>>>, AppSecret)>>,
    <<"md5", Hmac(algo, Raw(body), AppSecret)>> }

Paths == {"/api/webhooks/T1/facebook/x", "/api/webhooks/T1/instagram/x",
          "/api/webhooks/T1/twitter/x", "/api/webhooks"}

PathPlatform(path) ==
  CASE path = "/api/webhooks/T1/facebook/x" -> "facebook"
    [] path = "/api/webhooks/T1/instagram/x" -> "instagram"
    [] path = "/api/webhooks/T1/twitter/x" -> "twitter"
    [] OTHER -> "none"

Requests ==
  UNION { { [path |-> pa, body |-> b, headers |-> [sha1 |-> h1, sha256 |-> h256]] :
              pa \in Paths, h1 \in HeaderValues("sha1", b),
              h256 \in HeaderValues("sha256", b) } : b \in Bodies }

\* ---------------------------------------------------------------- responses
Response(code, status, queued, processed) ==
  [statusCode |-> code, status |-> status, queued |-> queued,
   processed |-> processed]

NoResponse == Response(0, "none", 0, 0)

\* The catch of the handler: "Always return 200 to Meta to avoid retries".
CaughtResponse_500 == Response(500, "error", 0, 0)

CaughtResponse == Response(200, "error", 0, 0)

\* What the loop of the handler does with one messaging event: it throws
\* (a TypeError on evt.sender.id), enqueues it, or passes over it.
EventStep_enqueueEcho(platform, evt) ==
  CASE platform = "instagram" /\ evt = "change" -> "enqueue"
    [] platform = "facebook" /\ evt = "no_sender" -> "throw"
    [] platform = "facebook" /\ evt \in {"message", "postback", "echo"} -> "enqueue"
    [] OTHER -> "skip"

EventStep(platform, evt) ==
  CASE platform = "instagram" /\ evt = "change" -> "enqueue"
    [] platform = "facebook" /\ evt = "no_sender" -> "throw"
    [] platform = "facebook" /\ evt \in {"message", "postback"} -> "enqueue"
    [] OTHER -> "skip"

\* The part of the handler before its first await: the signature, the
\* path, the JSON and the object type.  The value is the response, or
\* NoResponse when the handler goes on to the events.
EarlyResponse(req, appSecret) ==
  IF appSecret # "" /\ ~validateWebhook(req.headers, Raw(req.body), appSecret)
    THEN Response(401, "none", 0, 0)
  ELSE IF PathPlatform(req.path) = "none" THEN Response(400, "none", 0, 0)
  ELSE IF PathPlatform(req.path) \notin {"facebook", "instagram"}
    THEN Response(400, "none", 0, 0)
  ELSE IF req.body.kind \in {"empty", "garbage"} THEN Response(400, "none", 0, 0)
  ELSE IF req.body.kind = "other_object" THEN Response(200, "ignored", 0, 0)
  ELSE IF req.body.kind = "no_entry" THEN CaughtResponse
  ELSE NoResponse

\* A request record: the request, the configured secret, the position of
\* the handler, the events still to visit, queueResults.length, the id
\* returned by the insert in flight, and the response once given.
HandlerInit(appSecret) ==
  [pc |-> "idle", appSecret |-> appSecret, req |-> NULL, todo |-> <<>>,
   queued |-> 0, data |-> NULL, response |-> NoResponse]

HandlerStoreInit ==
  /\ message_queue = <<>>
  /\ message_processing_status = <<>>
  /\ messages = <<>>
  /\ message_dead_letters = <<>>
  /\ worker = [p \in Workers |-> Idle]
  /\ faults = 0
  /\ requests = 0
  /\ user_sessions = <<>>
  /\ conversations = <<>>
  /\ clock = 0
  /\ appended = <<>>

\* META_APP_SECRET is set, or it is not.
HandlerSpecInit ==
  /\ HandlerStoreInit
  /\ \E appSecret \in {AppSecret, ""} : http = HandlerInit(appSecret)

handlerFrame == <<worker, user_sessions, conversations, clock, appended>>

\* A POST arrives; the handler answers at once or turns to the events.
Post(req) ==
  /\ http.pc = "idle"
  /\ requests' = requests + 1
  /\ LET early == EarlyResponse(req, http.appSecret) IN
       http' = IF early # NoResponse
                 THEN [http EXCEPT !.pc = "done", !.req = req, !.response = early]
                 ELSE [http EXCEPT !.pc = "loop", !.req = req,
                                   !.todo = req.body.events]
  /\ UNCHANGED <<message_queue, message_processing_status, messages,
                 message_dead_letters, faults>>
  /\ UNCHANGED handlerFrame

\* The loop visits the next event: it passes over it, throws, or calls
\* queueMessage, whose first insert adds the row or throws.
VisitEvent ==
  /\ http.pc = "loop"
  /\ http.todo # <<>>
  /\ LET step == EventStep(PathPlatform(http.req.path), Head(http.todo)) IN
       \/ /\ step = "skip"
          /\ http' = [http EXCEPT !.todo = Tail(@)]
          /\ UNCHANGED <<message_queue, message_processing_status, faults>>
       \/ /\ step = "throw"
          /\ http' = [http EXCEPT !.pc = "done", !.response = CaughtResponse]
          /\ UNCHANGED <<message_queue, message_processing_status, faults>>
       \/ /\ step = "enqueue"
          /\ message_queue' = Append(message_queue, QueueRow)
          /\ message_processing_status' = Append(message_processing_status, <<>>)
          /\ http' = [http EXCEPT !.pc = "received",
                                  !.data = Len(message_queue) + 1]
          /\ UNCHANGED faults
       \/ /\ step = "enqueue"
          /\ MayFail
          /\ faults' = faults + 1
          /\ http' = [http EXCEPT !.pc = "done", !.response = CaughtResponse]
          /\ UNCHANGED <<message_queue, message_processing_status>>
  /\ UNCHANGED <<messages, message_dead_letters, requests>>
  /\ UNCHANGED handlerFrame

\* queueMessage, second insert (its error is not read), and
\* queueResults.push.
ReceivedTrace ==
  /\ http.pc = "received"
  /\ \/ /\ message_processing_status' =
             [message_processing_status EXCEPT ![http.data] =
                Append(@, Trace(http.data, "received", "completed", <<>>))]
        /\ UNCHANGED faults
     \/ /\ MayFail
        /\ faults' = faults + 1
        /\ UNCHANGED message_processing_status
  /\ http' = [http EXCEPT !.pc = "loop", !.todo = Tail(@), !.data = NULL,
                          !.queued = @ + 1]
  /\ UNCHANGED <<message_queue, messages, message_dead_letters, requests>>
  /\ UNCHANGED handlerFrame

\* processQueuedMessage(id, processMessage) run to its end without a
\* failing data-service call, on the tables st.
ProcessedInline(st, id, e) ==
  LET claimed == markMessageAsProcessing(st.queue, id)
      started == [st.traces EXCEPT ![id] =
                    Append(@, Trace(id, "processing_started", "completed", <<>>))]
      out == processMessage(st.messages, st.dead, id, e)
  IN [queue |-> StatusAfterStage(claimed, id, "response_sent", "completed"),
      traces |-> [started EXCEPT ![id] =
                    Append(@, Trace(id, "response_sent", "completed",
                                    <<out.result>>))],
      messages |-> out.messages,
      dead |-> out.dead]

RECURSIVE DrainedInline(_, _, _)
DrainedInline(st, ids, e) ==
  IF ids = <<>> THEN st
  ELSE DrainedInline(ProcessedInline(st, Head(ids), e), Tail(ids), e)

\* After the loop: processPendingMessages(processMessage, 2) and the
\* response 200 status:success; getPendingMessages may throw, and the catch
\* of the handler answers.
InlineDrain(e) ==
  /\ http.pc = "loop"
  /\ http.todo = <<>>
  /\ \/ LET ids == getPendingMessages(message_queue, InlineBatchSize)
            st == DrainedInline([queue |-> message_queue,
                                 traces |-> message_processing_status,
                                 messages |-> messages,
                                 dead |-> message_dead_letters], ids, e)
        IN /\ message_queue' = st.queue
           /\ message_processing_status' = st.traces
           /\ messages' = st.messages
           /\ message_dead_letters' = st.dead
           /\ http' = [http EXCEPT !.pc = "done",
                         !.response = Response(200, "success", http.queued, Len(ids))]
           /\ UNCHANGED faults
     \/ /\ MayFail
        /\ faults' = faults + 1
        /\ http' = [http EXCEPT !.pc = "done", !.response = CaughtResponse]
        /\ UNCHANGED <<message_queue, message_processing_status, messages,
                       message_dead_letters>>
  /\ UNCHANGED requests
  /\ UNCHANGED handlerFrame

HandlerNext ==
  \/ http.pc = "idle" /\ \E req \in Requests : Post(req)
  \/ VisitEvent
  \/ ReceivedTrace
  \/ \E e \in Environments : InlineDrain(e)

HandlerSpec == HandlerSpecInit /\ [][HandlerNext]_vars

\* ============================================================ repeated drains
\* The drain endpoint called again and again on a queue that holds one
\* event, with every step of the drain eventually taken.

\* One event has been enqueued by queueMessage.
StaleInit ==
  /\ message_queue = <<QueueRow>>
  /\ message_processing_status = << <<Trace(1, "received", "completed", <<>>)>> >>
  /\ messages = <<>>
  /\ message_dead_letters = <<>>
  /\ worker = [p \in Workers |-> Idle]
  /\ faults = 0
  /\ requests = 0
  /\ user_sessions = <<>>
  /\ conversations = <<>>
  /\ clock = 0
  /\ appended = <<>>
  /\ http = NULL

\* A further call of the drain endpoint, when the time stamps of the
\* model have reached their last value; no statement of the drain compares
\* a time stamp with the time.
DrainAgain(p, batchSize) ==
  /\ worker[p].pc = "idle"
  /\ requests = MaxRequests
  /\ worker' = [worker EXCEPT ![p] =
       [Idle EXCEPT !.pc = "select", !.batchSize = batchSize]]
  /\ UNCHANGED <<message_queue, message_processing_status, messages,
                 message_dead_letters, faults, requests>>
  /\ UNCHANGED storeVars

StaleNext ==
  \/ \E b \in BatchSizes : Drain(DrainEndpoint, b)
  \/ \E b \in BatchSizes : DrainAgain(DrainEndpoint, b)
  \/ Select(DrainEndpoint)
  \/ Mark(DrainEndpoint)
  \/ Fetch(DrainEndpoint)
  \/ Started(DrainEndpoint)
  \/ \E e \in Environments : Process(DrainEndpoint, e)
  \/ Sent(DrainEndpoint)
  \/ Failed(DrainEndpoint)
  \/ Requeue(DrainEndpoint)

\* The endpoint is called for ever and a drain under way takes its steps.
StaleSpec == StaleInit /\ [][StaleNext]_vars /\ WF_vars(StaleNext)

\* ============================================================ two events
\* Two events of one participant are in the queue, the first enqueued
\* before the second, and the drain endpoint is called, also while an
\* earlier call is under way.  Every data-service call succeeds.

OrderInit ==
  /\ message_queue = <<QueueRow, QueueRow>>
  /\ message_processing_status =
       << <<Trace(1, "received", "completed", <<>>)>>,
          <<Trace(2, "received", "completed", <<>>)>> >>
  /\ messages = <<>>
  /\ message_dead_letters = <<>>
  /\ worker = [p \in Workers |-> Idle]
  /\ faults = MaxFaults
  /\ requests = 0
  /\ user_sessions = <<>>
  /\ conversations = <<>>
  /\ clock = 0
  /\ appended = <<>>
  /\ http = NULL

\* The catch of processQueuedMessage is not entered: no data-service call
\* fails and processMessage returns in every case.
OrderNext ==
  \/ \E p \in Workers, b \in BatchSizes :
       requests < MaxOrderRequests /\ Drain(p, b)
  \/ \E p \in Workers : Select(p)
  \/ \E p \in Workers : Mark(p)
  \/ \E p \in Workers : Fetch(p)
  \/ \E p \in Workers : Started(p)
  \/ \E p \in Workers, e \in Environments : Process(p, e)
  \/ \E p \in Workers : Sent(p)

OrderSpec == OrderInit /\ [][OrderNext]_vars

\* ============================================================ session store
\* The steps of processMessage that read or write user_sessions and
\* conversations, for events of one participant (one tenant, platform and
\* sender) processed by two concurrent callers.  Every await on the data
\* service is one step.

Callers == {"w1", "w2"}

\* ------------------------------------------------------------------ values
\* A value stored under a key of the context: nothing, an array, a string.
None == [kind |-> "none", items |-> <<>>]
Array(items) == [kind |-> "array", items |-> items]
String(text) == [kind |-> "string", items |-> <<text>>]

\* An entry of conversationHistory; content names the text.
HistoryEntry(role, content) == [role |-> role, content |-> content]

\* items.slice(-n)
Last(items, n) ==
  IF Len(items) <= n THEN items ELSE SubSeq(items, Len(items) - n + 1, Len(items))

\* A context, and a contextUpdates object: the keys the model follows.
Context(history, lastUser, lastAssistant, topic) ==
  [conversationHistory |-> history, lastUserMessage |-> lastUser,
   lastAssistantMessage |-> lastAssistant, topic |-> topic]

NoUpdates == Context(None, None, None, None)

\* `count` entries, the oldest first.
Entries(role, tag, count) ==
  [k \in 1..count |-> HistoryEntry(role, <<tag, k>>)]

\* extractContextFromVoiceflowResponse: what the AI response sets through
\* set-variables payloads and [[SET:key=value]] markers: nothing, a key of
\* its own, conversationHistory as an array (a payload value), and
\* conversationHistory as a string (a marker).
AiContextUpdates ==
  { NoUpdates,
    [NoUpdates EXCEPT !.topic = String("billing")],
    [NoUpdates EXCEPT !.conversationHistory =
       Array(Entries("assistant", "ai", HistoryLimit + 1))],
    [NoUpdates EXCEPT !.conversationHistory = String("reset")] }

\* {...currentContext, ...contextUpdates}
Spread(currentContext, contextUpdates) ==
  [k \in DOMAIN currentContext |->
     IF contextUpdates[k] # None THEN contextUpdates[k] ELSE currentContext[k]]

\* The entries updateSessionContext pushes for contextUpdates.
Pushed(contextUpdates) ==
  (IF contextUpdates.lastUserMessage # None
     THEN <<HistoryEntry("user", contextUpdates.lastUserMessage.items[1])>>
     ELSE <<>>)
  \o (IF contextUpdates.lastAssistantMessage # None
        THEN <<HistoryEntry("assistant", contextUpdates.lastAssistantMessage.items[1])>>
        ELSE <<>>)

\* if (conversationHistory.length > 50) conversationHistory = slice(-50);
\* the strings of the model are shorter than that.
Truncated(history) ==
  IF history.kind = "array" /\ Len(history.items) > HistoryLimit
    THEN Array(Last(history.items, HistoryLimit))
    ELSE history

\* updateSessionContext between its select and its update: the context to
\* write, or a thrown TypeError.
updatedContext(currentContext, contextUpdates) ==
  LET history == IF currentContext.conversationHistory = None
                   THEN Array(<<>>) ELSE currentContext.conversationHistory
      pushed == Pushed(contextUpdates)
  IN IF pushed # <<>> /\ history.kind # "array"   \* push: a TypeError
       THEN [ok |-> FALSE, context |-> currentContext]
       ELSE [ok |-> TRUE,
             context |->
               Spread([currentContext EXCEPT !.conversationHistory =
                         Truncated(IF pushed = <<>> THEN history
                                   ELSE Array(history.items \o pushed))],
                      contextUpdates)]

\* ------------------------------------------------------------------- state
\* A row of user_sessions and a row of conversations, for the columns the
\* pipeline writes.
SessionRow(context, last_interaction, expires_at) ==
  [context |-> context, last_interaction |-> last_interaction,
   expires_at |-> expires_at]

ConversationRow(last_message_at, session_id) ==
  [last_message_at |-> last_message_at, session_id |-> session_id]

\* A caller: its position in processMessage, the event it processes and
\* the provider's timestamp of it, the session and the conversation it
\* works on, the contextUpdates of the AI response, and the context
\* updateSessionContext is about to write.
CallerIdle ==
  [pc |-> "idle", event |-> 0, timestamp |-> 0, session |-> 0,
   conversation |-> 0, contextUpdates |-> NoUpdates, context |-> NoUpdates]

\* The participant is new, or has a session and a conversation from
\* earlier events: with an empty history or one entry below the limit,
\* last used now or so long ago that the session has expired.
SessionStart(lengths, lastInteractions) ==
  /\ message_queue = <<>>
  /\ message_processing_status = <<>>
  /\ messages = <<>>
  /\ message_dead_letters = <<>>
  /\ worker = [c \in Callers |-> CallerIdle]
  /\ faults = 0
  /\ requests = 0
  /\ clock = 0
  /\ http = NULL
  /\ \/ /\ user_sessions = <<>>
        /\ conversations = <<>>
        /\ appended = <<>>
     \/ \E n \in lengths, t \in lastInteractions :
          /\ user_sessions =
               <<SessionRow(Context(Array(Entries("user", "old", n)), None, None, None),
                            t, t + SESSION_EXPIRY_HOURS)>>
          /\ conversations = <<ConversationRow(0, 1)>>
          /\ appended = <<Entries("user", "old", n)>>

\* The sessions found have been used now; the history is empty or one
\* entry below the limit.
SessionInit == SessionStart({0, HistoryLimit - 1}, {0})

\* The sessions found have an empty history; they have been used now, or
\* have expired.
ExpiryInit == SessionStart({0}, {0, 0 - SESSION_EXPIRY_HOURS - 1})

sessionFrame == <<message_queue, message_processing_status, messages,
                  message_dead_letters, http>>

\* The call of processMessage is left by a throw, or by its return.
Leave(c) == worker' = [worker EXCEPT ![c] = CallerIdle]

\* A data-service call fails and its error is thrown.
Throws(c) ==
  /\ MayFail
  /\ faults' = faults + 1
  /\ Leave(c)

\* ----------------------------------------------------------------- actions
\* processMessage is called for the next event of the participant.
Receive(c, timestamp) ==
  /\ worker[c].pc = "idle"
  /\ requests' = requests + 1
  /\ worker' = [worker EXCEPT ![c] =
       [CallerIdle EXCEPT !.pc = "selectSession", !.event = requests + 1,
                          !.timestamp = timestamp]]
  /\ UNCHANGED <<user_sessions, conversations, clock, appended, faults>>
  /\ UNCHANGED sessionFrame

\* The rows .order('last_interaction', {ascending: false}).limit(1) may
\* return.
LatestSessions ==
  {i \in 1..Len(user_sessions) :
     \A j \in 1..Len(user_sessions) :
        user_sessions[j].last_interaction <= user_sessions[i].last_interaction}

\* getOrCreateSession: the select.
SelectSession(c) ==
  /\ worker[c].pc = "selectSession"
  /\ \/ /\ IF user_sessions = <<>>
             THEN worker' = [worker EXCEPT ![c].pc = "insertSession"]
             ELSE \E id \in LatestSessions :
                    worker' = [worker EXCEPT ![c].pc = "extendFound",
                                             ![c].session = id]
        /\ UNCHANGED faults
     \/ Throws(c)
  /\ UNCHANGED <<user_sessions, conversations, clock, appended, requests>>
  /\ UNCHANGED sessionFrame

extendSession_noHours(table, sessionId, hours, time) ==
  [table EXCEPT ![sessionId] = [@ EXCEPT !.expires_at = time,
                                         !.last_interaction = time]]

\* extendSession(sessionId, hours) at the given time: the update.
extendSession(table, sessionId, hours, time) ==
  [table EXCEPT ![sessionId] = [@ EXCEPT !.expires_at = time + hours,
                                         !.last_interaction = time]]

\* extendSession, called by getOrCreateSession for the session found and
\* by processMessage after the AI call.
Extend(c) ==
  /\ worker[c].pc \in {"extendFound", "extendAfterAi"}
  /\ \/ /\ user_sessions' = extendSession(user_sessions, worker[c].session,
                                          SESSION_EXPIRY_HOURS, clock)
        /\ worker' = [worker EXCEPT ![c].pc =
             IF @ = "extendFound" THEN "selectConversation" ELSE "readAssistant"]
        /\ UNCHANGED faults
     \/ /\ Throws(c)
        /\ UNCHANGED user_sessions
  /\ UNCHANGED <<conversations, clock, appended, requests>>
  /\ UNCHANGED sessionFrame

\* The default of the column last_interaction, which the insert of
\* getOrCreateSession leaves out: the time of the insert.
DefaultLastInteraction(time) == time

\* getOrCreateSession: the insert.
InsertSession(c) ==
  /\ worker[c].pc = "insertSession"
  /\ \/ /\ user_sessions' = Append(user_sessions,
             SessionRow(Context(Array(<<>>), None, None, None),
                        DefaultLastInteraction(clock),
                        clock + SESSION_EXPIRY_HOURS))
        /\ appended' = Append(appended, <<>>)
        /\ worker' = [worker EXCEPT ![c].pc = "selectConversation",
                                    ![c].session = Len(user_sessions) + 1]
        /\ UNCHANGED faults
     \/ /\ Throws(c)
        /\ UNCHANGED <<user_sessions, appended>>
  /\ UNCHANGED <<conversations, clock, requests>>
  /\ UNCHANGED sessionFrame

\* getOrCreateConversation: the select; retryWithBackoff repeats the call
\* after a transient error and rethrows another one.
SelectConversation(c) ==
  /\ worker[c].pc = "selectConversation"
  /\ \/ /\ worker' = [worker EXCEPT
             ![c].pc = IF conversations = <<>> THEN "insertConversation"
                       ELSE "updateConversation",
             ![c].conversation = IF conversations = <<>> THEN 0 ELSE 1]
        /\ UNCHANGED faults
     \/ Throws(c)
     \/ /\ MayFail
        /\ faults' = faults + 1
        /\ UNCHANGED worker
  /\ UNCHANGED <<user_sessions, conversations, clock, appended, requests>>
  /\ UNCHANGED sessionFrame

\* getOrCreateConversation: the insert of a new conversation.
InsertConversation(c) ==
  /\ worker[c].pc = "insertConversation"
  /\ \/ /\ conversations' = Append(conversations,
             ConversationRow(worker[c].timestamp, worker[c].session))
        /\ worker' = [worker EXCEPT ![c].pc = "link",
                                    ![c].conversation = Len(conversations) + 1]
        /\ UNCHANGED faults
     \/ /\ Throws(c)
        /\ UNCHANGED conversations
     \/ /\ MayFail
        /\ faults' = faults + 1
        /\ worker' = [worker EXCEPT ![c].pc = "selectConversation"]
        /\ UNCHANGED conversations
  /\ UNCHANGED <<user_sessions, clock, appended, requests>>
  /\ UNCHANGED sessionFrame

\* getOrCreateConversation: the update of the conversation found; its
\* error is not read.
UpdateConversation(c) ==
  /\ worker[c].pc = "updateConversation"
  /\ \/ /\ conversations' = [conversations EXCEPT ![worker[c].conversation] =
             ConversationRow(worker[c].timestamp, worker[c].session)]
        /\ UNCHANGED faults
     \/ /\ MayFail
        /\ faults' = faults + 1
        /\ UNCHANGED conversations
  /\ worker' = [worker EXCEPT ![c].pc = "link"]
  /\ UNCHANGED <<user_sessions, clock, appended, requests>>
  /\ UNCHANGED sessionFrame

\* linkSessionToConversation(conversationId, session.id)
Link(c) ==
  /\ worker[c].pc = "link"
  /\ \/ /\ conversations' = [conversations EXCEPT
             ![worker[c].conversation].session_id = worker[c].session]
        /\ worker' = [worker EXCEPT ![c].pc = "readUser"]
        /\ UNCHANGED faults
     \/ /\ Throws(c)
        /\ UNCHANGED conversations
  /\ UNCHANGED <<user_sessions, clock, appended, requests>>
  /\ UNCHANGED sessionFrame

\* The contextUpdates of the three calls of updateSessionContext; the
\* text of the message of event n is <<"user", n>>, the reply <<"reply", n>>.
ContextUpdates(w) ==
  CASE w.pc \in {"readUser", "writeUser"} ->
         [NoUpdates EXCEPT !.lastUserMessage = String(<<"user", w.event>>)]
    [] w.pc \in {"readAssistant", "writeAssistant"} ->
         [NoUpdates EXCEPT !.lastAssistantMessage = String(<<"reply", w.event>>)]
    [] OTHER -> w.contextUpdates

\* updateSessionContext: the select of the context, and the context built
\* from it.
ReadContext(c) ==
  /\ worker[c].pc \in {"readUser", "readAi", "readAssistant"}
  /\ \/ /\ LET u == updatedContext(user_sessions[worker[c].session].context,
                                   ContextUpdates(worker[c]))
           IN IF u.ok
                THEN worker' = [worker EXCEPT
                       ![c].context = u.context,
                       ![c].pc = CASE @ = "readUser" -> "writeUser"
                                   [] @ = "readAi" -> "writeAi"
                                   [] OTHER -> "writeAssistant"]
                ELSE Leave(c)
        /\ UNCHANGED faults
     \/ Throws(c)
  /\ UNCHANGED <<user_sessions, conversations, clock, appended, requests>>
  /\ UNCHANGED sessionFrame

\* updateSessionContext: the update of context and last_interaction.
WriteContext(c) ==
  /\ worker[c].pc \in {"writeUser", "writeAi", "writeAssistant"}
  /\ \/ /\ user_sessions' = [user_sessions EXCEPT ![worker[c].session] =
             [@ EXCEPT !.context = worker[c].context,
                       !.last_interaction = clock]]
        /\ appended' = [appended EXCEPT ![worker[c].session] =
             @ \o Pushed(ContextUpdates(worker[c]))]
        /\ worker' = [worker EXCEPT ![c] =
             CASE @.pc = "writeUser" -> [@ EXCEPT !.pc = "ai"]
               [] @.pc = "writeAi" -> [@ EXCEPT !.pc = "extendAfterAi"]
               [] OTHER -> CallerIdle]
        /\ UNCHANGED faults
     \/ /\ Throws(c)
        /\ UNCHANGED <<user_sessions, appended>>
  /\ UNCHANGED <<conversations, clock, requests>>
  /\ UNCHANGED sessionFrame

\* The AI call: it fails for good and processMessage throws, or its
\* response carries the contextUpdates.
CallAi(c, ok, contextUpdates) ==
  /\ worker[c].pc = "ai"
  /\ worker' = [worker EXCEPT ![c] =
       IF ~ok THEN CallerIdle
       ELSE [@ EXCEPT !.contextUpdates = contextUpdates,
                      !.pc = IF contextUpdates = NoUpdates
                               THEN "extendAfterAi" ELSE "readAi"]]
  /\ UNCHANGED <<user_sessions, conversations, clock, appended, requests, faults>>
  /\ UNCHANGED sessionFrame

\* An hour passes.
Tick ==
  /\ clock < MaxClock
  /\ clock' = clock + 1
  /\ UNCHANGED <<user_sessions, conversations, appended, requests, faults, worker>>
  /\ UNCHANGED sessionFrame

\* The steps of a call of processMessage after its start.
Step(c) ==
  \/ SelectSession(c)
  \/ Extend(c)
  \/ InsertSession(c)
  \/ SelectConversation(c)
  \/ InsertConversation(c)
  \/ UpdateConversation(c)
  \/ Link(c)
  \/ ReadContext(c)
  \/ WriteContext(c)
  \/ CallAi(c, FALSE, NoUpdates)

\* The events carry the provider's timestamps in any order; time stands
\* still while they are processed.
SessionNext ==
  \/ \E c \in Callers, timestamp \in 1..MaxSessionEvents :
       requests < MaxSessionEvents /\ Receive(c, timestamp)
  \/ \E c \in Callers : Step(c)
  \/ \E c \in Callers, u \in AiContextUpdates : CallAi(c, TRUE, u)

SessionSpec == SessionInit /\ [][SessionNext]_vars

\* Time passes while the events are processed; the AI response sets no
\* key, or a key of its own.
ExpiryNext ==
  \/ \E c \in Callers : requests < MaxExpiryEvents /\ Receive(c, 1)
  \/ \E c \in Callers : Step(c)
  \/ \E c \in Callers, u \in {NoUpdates, [NoUpdates EXCEPT !.topic = String("billing")]} :
       CallAi(c, TRUE, u)
  \/ Tick

ExpirySpec == ExpiryInit /\ [][ExpiryNext]_vars

\* ============================================================ verification
\* The handler of meta-webhook-verification.js answering the GET by which
\* the provider verifies the endpoint.

\* The token written into the handler, 40 characters long.
KnownToken == "14abae006d729dbc83ca136af12bbbe1d9480eff"

\* Rows of webhook_configs; any subset of them is in the table.
WebhookConfigs ==
  { [user_id |-> "T1", platform |-> "facebook",
     verification_token |-> "token-of-T1-facebook", is_active |-> TRUE],
    [user_id |-> "T2", platform |-> "facebook",
     verification_token |-> "token-of-T2-facebook", is_active |-> TRUE],
    [user_id |-> "T1", platform |-> "instagram",
     verification_token |-> "token-of-T1-instagram", is_active |-> FALSE] }

\* A GET: hub.mode, hub.verify_token (absent: ""), hub.challenge, and the
\* user id and platform of the path (a path without them: "" and 'all').
VerificationRequests ==
  [mode : {"subscribe", "unsubscribe"},
   token : {"", KnownToken, "test_token", "short", "a-token-nobody-issued"}
             \cup {c.verification_token : c \in WebhookConfigs},
   challenge : {"C123", "C456"},
   userId : {"", "T1", "T2"},
   platform : {"all", "facebook", "instagram"}]

\* The data service as the handler finds it: the client exists or not,
\* the table, and whether the query returns an error.
VerificationEnvironments ==
  [supabase : BOOLEAN, table : SUBSET WebhookConfigs, error : BOOLEAN]

\* The response of the handler to a GET.
verificationHandler(req, env) ==
  LET Json(code) == [statusCode |-> code, contentType |-> "application/json",
                     body |-> "error"]
      Challenge == [statusCode |-> 200, contentType |-> "text/plain",
                    body |-> req.challenge]
      long == req.token \notin {"", "test_token", "short"}   \* token.length > 10
      found == {c \in env.table :
                  /\ c.verification_token = req.token
                  /\ (req.userId # "" => c.user_id = req.userId)
                  /\ (req.platform # "all" => c.platform = req.platform)}
  IN IF req.mode # "subscribe" THEN Json(400)
     ELSE IF req.token = "" THEN Json(400)
     ELSE IF req.token = KnownToken THEN Challenge
     ELSE IF ~env.supabase
       THEN IF long \/ req.token = "test_token" THEN Challenge ELSE Json(401)
     ELSE IF env.error THEN Json(500)
     ELSE IF found # {} THEN Challenge
     ELSE Json(401)

VerificationInit ==
  /\ HandlerStoreInit
  /\ \E req \in VerificationRequests, env \in VerificationEnvironments :
       /\ req.userId = "" <=> req.platform = "all"
       /\ http = [pc |-> "idle", req |-> req, env |-> env,
                  response |-> [statusCode |-> 0, contentType |-> "", body |-> ""]]

\* The request is answered.
Verify ==
  /\ http.pc = "idle"
  /\ http' = [http EXCEPT !.pc = "done",
                          !.response = verificationHandler(http.req, http.env)]
  /\ UNCHANGED <<message_queue, message_processing_status, messages,
                 message_dead_letters, faults, requests>>
  /\ UNCHANGED handlerFrame

VerificationSpec == VerificationInit /\ [][Verify]_vars

\* ============================================================ data deletion
\* The handler of meta-data-deletion.js.  A signed_request is the pair of
\* its encoded signature and its encoded payload; a payload is JSON or
\* not, and holds a user_id or not ("").

\* The payload; the signature and the secret are not read.
parseSignedRequest(signedRequest, secret) == signedRequest.payload

\* The response of the handler to a POST and the deletions it initiated;
\* the confirmation code is drawn by Math.random.
deletionHandler(req, appSecret, confirmationCode) ==
  LET Out(code, confirmation, initiated) ==
        [response |-> [statusCode |-> code, confirmation_code |-> confirmation],
         initiated |-> initiated]
      data == parseSignedRequest(req.signed_request, appSecret)
  IN IF ~req.body THEN Out(400, "", <<>>)
     ELSE IF ~req.param THEN Out(400, "", <<>>)
     ELSE IF appSecret = "" THEN Out(500, "", <<>>)
     ELSE IF ~data.json THEN Out(500, "", <<>>)
     ELSE IF data.user_id = "" THEN Out(400, "", <<>>)
     ELSE Out(200, confirmationCode, <<[userId |-> data.user_id,
                                        confirmationCode |-> confirmationCode]>>)

DeletionInit ==
  /\ HandlerStoreInit
  /\ \E payload \in [json : BOOLEAN, user_id : {"", "U1", "U2"}],
        signed \in [json : BOOLEAN, user_id : {"", "U1", "U2"}],
        key \in {AppSecret, "other-key"},
        body \in BOOLEAN, param \in BOOLEAN, isBase64Encoded \in BOOLEAN,
        appSecret \in {AppSecret, ""} :
       /\ (~body => ~param)
       /\ (~param => payload = signed /\ key = AppSecret /\ payload.json
                       /\ payload.user_id = "U1")
       /\ (~payload.json => payload.user_id = "")
       /\ (~signed.json => signed.user_id = "")
       /\ http = [pc |-> "idle", appSecret |-> appSecret,
                  req |-> [body |-> body, param |-> param,
                           isBase64Encoded |-> isBase64Encoded,
                           signed_request |->
                             [signature |-> Hmac("sha256", signed, key),
                              payload |-> payload]],
                  response |-> [statusCode |-> 0, confirmation_code |-> ""],
                  initiated |-> <<>>]

\* The request is answered.
Delete ==
  /\ http.pc = "idle"
  /\ \E confirmationCode \in {"DEL1AAAAAAA", "DEL2BBBBBBB"} :
       LET out == deletionHandler(http.req, http.appSecret, confirmationCode)
       IN http' = [http EXCEPT !.pc = "done", !.response = out.response,
                               !.initiated = out.initiated]
  /\ UNCHANGED <<message_queue, message_processing_status, messages,
                 message_dead_letters, faults, requests>>
  /\ UNCHANGED handlerFrame

DeletionSpec == DeletionInit /\ [][Delete]_vars

\* ==================================================================== retry
\* retryWithBackoff on its own: a script of what each invocation of fn
\* would do (one entry more than the function may use), maxRetries and one
\* of the shouldRetry predicates.
RetryInit ==
  /\ HandlerStoreInit
  /\ \E maxRetries \in 0..DefaultMaxRetries,
        policy \in {"transient", "transientOr5xx", "always"},
        script \in [1..(DefaultMaxRetries + 2) ->
                      {NoError, Err("network", 0), Http(401), Http(503)}] :
       http = [pc |-> "idle", script |-> script, maxRetries |-> maxRetries,
               policy |-> policy,
               result |-> [ok |-> FALSE, error |-> NoError, calls |-> 0]]

\* The call returns or throws.
Retry ==
  /\ http.pc = "idle"
  /\ http' = [http EXCEPT !.pc = "done",
                !.result = retryWithBackoff(http.script, http.maxRetries,
                                            http.policy)]
  /\ UNCHANGED <<message_queue, message_processing_status, messages,
                 message_dead_letters, faults, requests>>
  /\ UNCHANGED handlerFrame

RetrySpec == RetryInit /\ [][Retry]_vars

\* =================================================================== batches
\* Calls of the drain endpoint, one at a time, on two queued events, with
\* failing data-service calls.
BatchInit ==
  /\ message_queue = <<QueueRow, QueueRow>>
  /\ message_processing_status =
       << <<Trace(1, "received", "completed", <<>>)>>,
          <<Trace(2, "received", "completed", <<>>)>> >>
  /\ messages = <<>>
  /\ message_dead_letters = <<>>
  /\ worker = [p \in Workers |-> Idle]
  /\ faults = 0
  /\ requests = 0
  /\ user_sessions = <<>>
  /\ conversations = <<>>
  /\ clock = 0
  /\ appended = <<>>
  /\ http = NULL

BatchNext ==
  \/ \E b \in BatchSizes :
       requests < MaxOrderRequests /\ Drain(DrainEndpoint, b)
  \/ Select(DrainEndpoint)
  \/ Mark(DrainEndpoint)
  \/ Fetch(DrainEndpoint)
  \/ Started(DrainEndpoint)
  \/ \E e \in Environments : Process(DrainEndpoint, e)
  \/ Sent(DrainEndpoint)
  \/ Failed(DrainEndpoint)
  \/ Requeue(DrainEndpoint)

BatchSpec == BatchInit /\ [][BatchNext]_vars

\* ================================================================ the sweep
\* cleanupExpiredSessions: .delete().lt('expires_at', now).select(); the
\* rows left in the table.
cleanupExpiredSessions_lte(table, time) ==
  SelectSeq(table, LAMBDA row : ~(row.expires_at <= time))

cleanupExpiredSessions(table, time) ==
  SelectSeq(table, LAMBDA row : ~(row.expires_at < time))

\* The participant has no session, or sessions from earlier events that
\* expired an hour ago, expire now, or expire in an hour.
SweepInit ==
  /\ message_queue = <<>>
  /\ message_processing_status = <<>>
  /\ messages = <<>>
  /\ message_dead_letters = <<>>
  /\ worker = [c \in Callers |-> CallerIdle]
  /\ faults = 0
  /\ requests = 0
  /\ clock = 0
  /\ http = [pc |-> "idle", ok |-> FALSE, count |-> 0, now |-> 0,
             before |-> <<>>]
  /\ \E n \in 0..2 :
       \E t \in [1..n -> {0 - SESSION_EXPIRY_HOURS - 1, 0 - SESSION_EXPIRY_HOURS,
                          1 - SESSION_EXPIRY_HOURS}] :
          /\ user_sessions =
               [i \in 1..n |->
                  SessionRow(Context(Array(<<>>), None, None, None),
                             t[i], t[i] + SESSION_EXPIRY_HOURS)]
          /\ conversations = [i \in 1..Min(n, 1) |-> ConversationRow(0, 1)]
          /\ appended = [i \in 1..n |-> <<>>]

\* The handler of cleanup-sessions.js: the delete and the count of the
\* rows it returns, or the error of the data service.
Sweep ==
  /\ http.pc = "idle"
  /\ \/ /\ user_sessions' = cleanupExpiredSessions(user_sessions, clock)
        /\ http' = [pc |-> "done", ok |-> TRUE,
                    count |-> Len(user_sessions) - Len(user_sessions'),
                    now |-> clock, before |-> user_sessions]
        /\ UNCHANGED faults
     \/ /\ MayFail
        /\ faults' = faults + 1
        /\ http' = [pc |-> "done", ok |-> FALSE, count |-> 0, now |-> clock,
                    before |-> user_sessions]
        /\ UNCHANGED user_sessions
  /\ UNCHANGED <<message_queue, message_processing_status, messages,
                 message_dead_letters, worker, requests, conversations, clock,
                 appended>>

\* Events are processed, one at a time, and time passes until the sweep
\* runs.
SweepNext ==
  \/ http.pc = "idle" /\ requests < MaxExpiryEvents /\ Receive("w1", 1)
  \/ http.pc = "idle" /\ Step("w1")
  \/ http.pc = "idle" /\ CallAi("w1", TRUE, NoUpdates)
  \/ http.pc = "idle" /\ Tick
  \/ Sweep

SweepSpec == SweepInit /\ [][SweepNext]_vars

\* ================================================================== tenants
\* processMessage with the rows of two tenants in the tables.  The page P1
\* is connected by both tenants; the participant S1 writes to both.

\* Rows of social_connections; any subset of them is in the table.
SocialConnections ==
  { [user_id |-> "T1", fb_page_id |-> "P1", ig_account_id |-> "I1",
     access_token |-> "token-T1"],
    [user_id |-> "T2", fb_page_id |-> "P1", ig_account_id |-> "I2",
     access_token |-> "token-T2"],
    [user_id |-> "T2", fb_page_id |-> "P2", ig_account_id |-> "I1",
     access_token |-> "token-T2-second"] }

getSocialConnection_anyTenant(table, userId, platform, recipientId) ==
  {c \in table :
     (IF platform = "facebook" THEN c.fb_page_id ELSE c.ig_account_id)
       = recipientId}

\* The rows the select of getSocialConnection returns.
getSocialConnection(table, userId, platform, recipientId) ==
  {c \in table :
     /\ c.user_id = userId
     /\ (IF platform = "facebook" THEN c.fb_page_id ELSE c.ig_account_id)
          = recipientId}

\* An event of a tenant, and the tables: sessions and conversations of the
\* participant with either tenant, from earlier events, and the messages
\* of those conversations.
IsolationInit ==
  /\ message_queue = <<>>
  /\ message_processing_status = <<>>
  /\ message_dead_letters = <<>>
  /\ worker = [c \in Callers |-> CallerIdle]
  /\ faults = 0
  /\ requests = 0
  /\ clock = 0
  /\ appended = <<>>
  /\ \E tenants \in {<<>>, <<"T1">>, <<"T2">>, <<"T1", "T2">>, <<"T2", "T1">>},
        platforms \in [1..2 -> {"facebook", "instagram"}] :
       /\ user_sessions =
            [i \in 1..Len(tenants) |->
               [user_id |-> tenants[i], participant_id |-> "S1",
                platform |-> platforms[i], extended |-> 0]]
       /\ conversations =
            [i \in 1..Len(tenants) |->
               [user_id |-> tenants[i], platform |-> platforms[i],
                external_id |-> "S1", session_id |-> i, updated |-> 0]]
       /\ messages =
            [i \in 1..Len(tenants) |->
               [conversation_id |-> i, sender_type |-> "user"]]
  /\ \E userId \in {"T1", "T2"}, platform \in {"facebook", "instagram"},
        recipientId \in {"P1", "P2", "I1", "I2"},
        table \in SUBSET SocialConnections :
       http = [pc |-> "idle", userId |-> userId, platform |-> platform,
               senderId |-> "S1", recipientId |-> recipientId,
               social_connections |-> table, sent |-> <<>>,
               sessions |-> <<>>, conversations |-> <<>>, messages |-> <<>>]

\* processMessage run to its end, the AI call and the send succeeding:
\* the connection, the session, the conversation, the two messages and the
\* post to the provider.
Reply ==
  /\ http.pc = "idle"
  /\ LET found == getSocialConnection(http.social_connections, http.userId,
                                      http.platform, http.recipientId)
         sessions == {i \in 1..Len(user_sessions) :
                        /\ user_sessions[i].user_id = http.userId
                        /\ user_sessions[i].participant_id = http.senderId
                        /\ user_sessions[i].platform = http.platform}
         convs == {i \in 1..Len(conversations) :
                     /\ conversations[i].user_id = http.userId
                     /\ conversations[i].platform = http.platform
                     /\ conversations[i].external_id = http.senderId}
         before == [http EXCEPT !.pc = "done", !.sessions = user_sessions,
                                !.conversations = conversations,
                                !.messages = messages]
     IN IF found = {}
          THEN /\ http' = before
               /\ UNCHANGED <<user_sessions, conversations, messages>>
          ELSE \E connection \in found :
                 \E sid \in IF sessions = {} THEN {Len(user_sessions) + 1}
                                             ELSE sessions :
                   \E cid \in IF convs = {} THEN {Len(conversations) + 1}
                                            ELSE convs :
                      /\ user_sessions' =
                           IF sessions = {}
                             THEN Append(user_sessions,
                                    [user_id |-> http.userId,
                                     participant_id |-> http.senderId,
                                     platform |-> http.platform, extended |-> 1])
                             ELSE [user_sessions EXCEPT ![sid].extended = @ + 2]
                      /\ conversations' =
                           IF convs = {}
                             THEN Append(conversations,
                                    [user_id |-> http.userId,
                                     platform |-> http.platform,
                                     external_id |-> http.senderId,
                                     session_id |-> sid, updated |-> 1])
                             ELSE [conversations EXCEPT ![cid].session_id = sid,
                                                        ![cid].updated = @ + 2]
                      /\ messages' =
                           messages \o
                             <<[conversation_id |-> cid, sender_type |-> "user"],
                               [conversation_id |-> cid, sender_type |-> "assistant"]>>
                      /\ http' = [before EXCEPT !.sent =
                                    <<[access_token |-> connection.access_token,
                                       recipient |-> http.senderId]>>]
  /\ UNCHANGED <<message_queue, message_processing_status, message_dead_letters,
                 worker, faults, requests, clock, appended>>

IsolationSpec == IsolationInit /\ [][Reply]_vars

\* ===================================================================== hook
\* useAsyncCall.  retryCount is the state of the component; execute is
\* created by a render and reads the retryCount of that render, which
\* setRetryCount does not change while the call runs.

\* The hook after its first render, for each maxRetries up to the default.
HookInit ==
  /\ HandlerStoreInit
  /\ \E maxRetries \in 0..HookMaxRetries :
       http = [pc |-> "idle", maxRetries |-> maxRetries, retryCount |-> 0,
               rendered |-> 0, calls |-> 0, total |-> 0,
               loading |-> FALSE, error |-> FALSE]

\* execute(...args) of the latest render: loading set, error cleared,
\* asyncFunction called.
Execute ==
  /\ http.pc # "calling"
  /\ http.total < MaxCalls
  /\ http' = [http EXCEPT !.pc = "calling", !.rendered = http.retryCount,
                          !.calls = 1, !.total = @ + 1,
                          !.loading = TRUE, !.error = FALSE]
  /\ UNCHANGED <<message_queue, message_processing_status, messages,
                 message_dead_letters, faults, requests>>
  /\ UNCHANGED handlerFrame

\* asyncFunction resolves: data set, loading cleared, retryCount reset.
Resolve ==
  /\ http.pc = "calling"
  /\ http' = [http EXCEPT !.pc = "returned", !.loading = FALSE,
                          !.retryCount = 0]
  /\ UNCHANGED <<message_queue, message_processing_status, messages,
                 message_dead_letters, faults, requests>>
  /\ UNCHANGED handlerFrame

\* asyncFunction rejects: the catch block of execute.
Reject ==
  /\ http.pc = "calling"
  /\ IF http.rendered < http.maxRetries
       THEN /\ http.total < MaxCalls
            /\ http' = [http EXCEPT !.retryCount = @ + 1, !.calls = @ + 1,
                                    !.total = @ + 1,
                                    !.loading = TRUE, !.error = FALSE]
       ELSE http' = [http EXCEPT !.pc = "thrown", !.error = TRUE,
                                 !.loading = FALSE]
  /\ UNCHANGED <<message_queue, message_processing_status, messages,
                 message_dead_letters, faults, requests>>
  /\ UNCHANGED handlerFrame

HookNext == Execute \/ Resolve \/ Reject

HookSpec == HookInit /\ [][HookNext]_vars

\* =================================================================== claims
\* The queued message a request is working on, between the return of
\* markMessageAsProcessing and the return of processQueuedMessage.
Holds(p) ==
  worker[p].pc \in {"fetch", "started", "process", "sent", "failed", "requeue"}

\* This step of request p ends its call of processQueuedMessage.
AttemptEnds(p) ==
  /\ worker[p].pc \in {"started", "process", "sent", "failed", "requeue"}
  /\ worker'[p].pc \in {"idle", "mark"}

\* processMessage returned a failure of the given kind to request p.
ReturnedFailure(p, transient) ==
  /\ worker[p].result # <<>>
  /\ ~worker[p].result[1].success
  /\ worker[p].result[1].transient = transient

HasTrace(id, stage, status) ==
  \E k \in 1..Len(message_processing_status[id]) :
     /\ message_processing_status[id][k].stage = stage
     /\ message_processing_status[id][k].status = status

\* C1: once queueMessage has returned, the row it inserted into
\* message_queue has its ProcessingTrace {stage=received, status=completed}:
\* no queued event is left without its 'received' trace.
C1_EnqueueAtomic ==
  \A id \in 1..Len(message_queue) :
     (\A p \in Workers : ~(worker[p].pc = "received" /\ worker[p].data = id))
        => HasTrace(id, "received", "completed")

\* C2: a queued event is claimed by at most one drain invocation at a
\* time: the drain endpoint and the inline drain of the event endpoint
\* never both hold the same event.
C2_ClaimExclusive ==
  \A p \in Workers : \A q \in Workers :
     (p # q /\ Holds(p) /\ Holds(q)) => CurrentId(p) # CurrentId(q)

\* C3: an event has status=completed only if a pipeline run for it
\* returned success with the id of a persisted assistant message.
C3_CompletedOnlyWithReply ==
  \A id \in 1..Len(message_queue) :
     message_queue[id].status = "completed" =>
       \E k \in 1..Len(message_processing_status[id]) :
          LET t == message_processing_status[id][k] IN
          /\ t.stage = "response_sent"
          /\ t.metadata # <<>>
          /\ t.metadata[1].success
          /\ t.metadata[1].messageId \in 1..Len(messages)
          /\ messages[t.metadata[1].messageId].sender_type = "assistant"

\* C4: when the processing of a claimed event failed with a transient
\* error and the claimed row has retry_count < 3, processQueuedMessage
\* leaves the event in status=pending.
C4_TransientRequeued ==
  [][\A p \in Workers :
       (AttemptEnds(p) /\ ReturnedFailure(p, TRUE)
          /\ worker[p].message.retry_count < RetryLimit)
       => message_queue'[CurrentId(p)].status = "pending"]_vars

\* C5: the claim step changes a row only if its status is pending, and
\* then to status=processing with retry_count one higher and
\* last_retry_at set; a row in any other status is left as it is.
C5_ClaimOnlyPending ==
  [][\A p \in Workers :
       (worker[p].pc = "mark" /\ worker'[p].pc # "mark") =>
         LET row == message_queue[CurrentId(p)]
             after == message_queue'[CurrentId(p)]
         IN IF row.status = "pending"
              THEN \/ after = row
                   \/ after = [row EXCEPT !.status = "processing",
                                          !.retry_count = @ + 1,
                                          !.last_retry_at = now]
              ELSE after = row]_vars

\* C6: processQueuedMessage called on an event with status=completed
\* leaves its row and its traces unchanged.
C6_CompletedNoop ==
  [][\A p \in Workers :
       (worker[p].pc = "mark"
          /\ message_queue[CurrentId(p)].status = "completed") =>
         /\ message_queue'[CurrentId(p)] = message_queue[CurrentId(p)]
         /\ message_processing_status'[CurrentId(p)] =
              message_processing_status[CurrentId(p)]]_vars

\* C7: every event a drain selects has status=pending and
\* retry_count < 3; a failed event is never selected.
C7_SelectsOnlyPending ==
  [][\A p \in Workers :
       worker[p].pc = "select" =>
         \A k \in 1..Len(worker'[p].pendingMessages) :
            LET row == message_queue[worker'[p].pendingMessages[k]] IN
            row.status = "pending" /\ row.retry_count < RetryLimit]_vars

\* C8: every queued event has retry_count <= 3.
C8_RetryCountBounded ==
  \A id \in 1..Len(message_queue) : message_queue[id].retry_count <= RetryLimit

\* C9: when the claimed row has retry_count = 3 and the processing
\* failed with a transient error, processQueuedMessage leaves the event
\* in status=failed.
C9_ExhaustedFails ==
  [][\A p \in Workers :
       (AttemptEnds(p) /\ worker[p].message.retry_count = RetryLimit
          /\ (ReturnedFailure(p, TRUE)
                \/ IsTransientError(worker[p].processingError)))
       => message_queue'[CurrentId(p)].status = "failed"]_vars

\* C10: when processMessage returned the failure of the AI call stage
\* (a permanent error, or the retries exhausted), message_dead_letters
\* holds a row {status=failed, retry_count=0} for the message.
C10_DeadLetterOnAiFailure ==
  \A p \in Workers :
     (worker[p].result # <<>>
        /\ worker[p].result[1].error = "Failed to process message with AI assistant")
     => \E n \in 1..Len(message_dead_letters) :
           /\ message_dead_letters[n].message_content = CurrentId(p)
           /\ message_dead_letters[n].status = "failed"
           /\ message_dead_letters[n].retry_count = 0

\* ------------------------------------------------------ event endpoint
\* The request carries a header that is the HMAC of its body under the
\* app secret, with the prefix of its algorithm.
Genuine(req) ==
  \/ req.headers.sha256 = <<"sha256", Hmac("sha256", Raw(req.body), AppSecret)>>
  \/ req.headers.sha1 = <<"sha1", Hmac("sha1", Raw(req.body), AppSecret)>>

NothingPersisted ==
  /\ message_queue = <<>>
  /\ message_processing_status = <<>>
  /\ messages = <<>>
  /\ message_dead_letters = <<>>
  /\ user_sessions = <<>>
  /\ conversations = <<>>

\* The events of a request the loop of the handler enqueues.
RECURSIVE Enqueueable(_, _)
Enqueueable(platform, events) ==
  IF events = <<>> THEN 0
  ELSE (IF EventStep(platform, Head(events)) = "enqueue" THEN 1 ELSE 0)
         + Enqueueable(platform, Tail(events))

WouldEnqueue(req) ==
  /\ PathPlatform(req.path) \in {"facebook", "instagram"}
  /\ Enqueueable(PathPlatform(req.path), req.body.events) > 0

\* C11: with the app secret configured, a POST none of whose signature
\* headers is the HMAC of its body under the secret is answered 401 before
\* anything is written: no queue row, trace, message, dead letter, session
\* or conversation exists because of it, and no event is processed.
C11_InvalidSignaturePersistsNothing ==
  (http.pc # "idle" /\ http.appSecret # "" /\ ~Genuine(http.req))
    => /\ NothingPersisted
       /\ http.pc = "done"
       /\ http.response.statusCode = 401

\* A request with events the handler would enqueue, signed with another
\* key, has been refused.
C11_Witness ==
  /\ http.pc = "done"
  /\ http.appSecret # ""
  /\ ~Genuine(http.req)
  /\ http.req.headers.sha256 # Absent
  /\ WouldEnqueue(http.req)
  /\ http.response.statusCode = 401

AllEnqueued ==
  Len(message_queue) = Enqueueable(PathPlatform(http.req.path), http.req.body.events)

\* C12 as stated: the endpoint answers 200 only after every event of the
\* request has been enqueued.
C12_AckOnlyAfterEnqueue ==
  (http.pc = "done" /\ http.response.statusCode = 200) => AllEnqueued

\* C12 amended: the endpoint answers 200, 400 or 401 and never 5xx; 400
\* and 401 are given before anything is enqueued; status 'success' is
\* given only after every event of the request has been enqueued and the
\* inline drain has run; a request that reached the events is answered 200
\* also when an enqueue, an event or the inline drain throws, then with
\* status 'error'.
C12_AlwaysAcknowledged ==
  http.pc = "done" =>
    /\ http.response.statusCode \in {200, 400, 401}
    /\ http.response.statusCode \in {400, 401} => NothingPersisted
    /\ http.response.status = "success" =>
         AllEnqueued /\ http.response.queued = Len(message_queue)
    /\ (http.todo # <<>> \/ http.response.status = "error") =>
         http.response.statusCode = 200

\* An enqueue threw after an earlier event of the request was enqueued,
\* and the request was answered 200 status:error.
C12_Witness ==
  /\ http.pc = "done"
  /\ http.response.statusCode = 200
  /\ http.response.status = "error"
  /\ Len(message_queue) = 1
  /\ ~AllEnqueued

\* C23: with the app secret configured, a POST that carries an
\* x-hub-signature-256 header that does not verify is rejected, also when
\* its x-hub-signature (SHA-1) header verifies: nothing is written because
\* of it and it is not answered 200.
C23_Sha1OnlyWhen256Absent ==
  (/\ http.pc # "idle"
   /\ http.appSecret # ""
   /\ http.req.headers.sha256 # Absent
   /\ http.req.headers.sha256
        # <<"sha256", Hmac("sha256", Raw(http.req.body), AppSecret)>>)
    => /\ NothingPersisted
       /\ http.pc = "done" => http.response.statusCode # 200

\* C24: a POST without a genuine signature header is never enqueued, a
\* missing app secret does not let it pass (the handler has no setting that
\* disables the check), and with the secret configured it is answered 401.
C24_MissingSecretIsNoDisable ==
  (http.pc # "idle" /\ ~Genuine(http.req))
    => /\ NothingPersisted
       /\ (http.pc = "done" /\ http.appSecret # "")
            => http.response.statusCode = 401

\* C25: a POST with a malformed payload (the body is no JSON, or it has no
\* entry list, or one of its events has no sender) is answered with a 4xx
\* status and enqueues nothing, the events before the malformed one
\* included.
C25_MalformedPayloadRejected ==
  (/\ http.pc # "idle" /\ Genuine(http.req) /\ http.appSecret # ""
   /\ PathPlatform(http.req.path) = "facebook"
   /\ \/ http.req.body.kind \in {"garbage", "no_entry"}
      \/ \E i \in 1..Len(http.req.body.events) :
           http.req.body.events[i] = "no_sender")
    => /\ message_queue = <<>>
       /\ http.pc = "done" => http.response.statusCode \in 400..499

C27_EchoNeverEnqueued ==
  LET events == http.req.body.events
      echoes == {i \in 1..Len(events) : events[i] = "echo"}
  IN (http.pc # "idle" /\ PathPlatform(http.req.path) = "facebook"
        /\ echoes # {})
       => /\ Len(message_queue) <= Len(events) - Cardinality(echoes)
          /\ (http.pc = "done"
                /\ EarlyResponse(http.req, http.appSecret) = NoResponse)
               => http.response.statusCode = 200

\* A request with a message and its echo was answered 200 status:success
\* with one row enqueued.
C27_Witness ==
  /\ http.pc = "done"
  /\ PathPlatform(http.req.path) = "facebook"
  /\ http.req.body.events = <<"message", "echo">>
  /\ http.response.statusCode = 200
  /\ http.response.status = "success"
  /\ http.response.queued = 1
  /\ Len(message_queue) = 1

\* ------------------------------------------------------ repeated drains
\* C13: an event left in status processing by a drain that did not finish
\* it is eventually taken out of that status by a later drain: no event
\* stays in processing for ever.
C13_StaleClaimReverted ==
  (message_queue[1].status = "processing") ~> (message_queue[1].status # "processing")

\* ------------------------------------------------------------ two events
\* The reply to queued event id has been stored after its user message.
ReplyProduced(id) ==
  \E k \in 1..(Len(messages) - 1) :
     messages[k] = UserMessage(id) /\ messages[k + 1] = AssistantMessage

Terminal(id) == message_queue[id].status \in {"completed", "failed"}

\* C14: of two events of one conversation, the reply to the one enqueued
\* second is not produced before the one enqueued first has reached a
\* terminal status.
C14_RepliesInEnqueueOrder == ReplyProduced(2) => Terminal(1)

\* ------------------------------------------------------------ session store
History(id) == user_sessions[id].context.conversationHistory

HasEntry(history, entry) ==
  \E k \in 1..Len(history.items) : history.items[k] = entry

\* C15: when two calls of updateSessionContext carrying lastUserMessage
\* have both written to the same session, the entries of both are in its
\* conversationHistory.
C15_NoLostSibling ==
  (/\ \A c \in Callers : worker[c].pc = "ai"
   /\ worker["w1"].session = worker["w2"].session)
    => \A c \in Callers :
          HasEntry(History(worker[c].session),
                   HistoryEntry("user", <<"user", worker[c].event>>))

\* C16: the conversationHistory stored in a session has at most 50
\* entries, whatever keys the AI response sets.
C16_HistoryBounded ==
  \A id \in 1..Len(user_sessions) : Len(History(id).items) <= HistoryLimit

\* C17: the conversationHistory of a session is the most recent
\* min(n, 50) of the n entries written to it, in the order they were
\* written.
C17_AppendOnlyFifo ==
  \A id \in 1..Len(user_sessions) :
     History(id) = Array(Last(appended[id], HistoryLimit))

C19_OneConversation == Len(conversations) <= 1

\* C20: last_message_at of a conversation never decreases.
C20_LastMessageMonotone ==
  [][\A id \in 1..Len(conversations) :
       conversations'[id].last_message_at >= conversations[id].last_message_at]_vars

\* ------------------------------------------------------------ verification
\* C21: the GET is answered 200 text/plain with the challenge exactly when
\* hub.mode is subscribe and the token is that of an active row of
\* webhook_configs of the tenant and platform of the path; otherwise the
\* status is 400 or 401 and the challenge is not echoed.
C21_ChallengeIffActiveConfig ==
  http.pc = "done" =>
    LET matching == \E c \in http.env.table :
                       /\ http.env.supabase /\ ~http.env.error
                       /\ c.is_active
                       /\ c.verification_token = http.req.token
                       /\ (http.req.userId # "" => c.user_id = http.req.userId)
                       /\ (http.req.platform # "all" => c.platform = http.req.platform)
    IN IF http.req.mode = "subscribe" /\ matching
         THEN http.response = [statusCode |-> 200, contentType |-> "text/plain",
                               body |-> http.req.challenge]
         ELSE /\ http.response.statusCode \in {400, 401}
              /\ http.response.body # http.req.challenge

\* C22: when the data service is not configured or does not answer the
\* query, no token leads to a 200 response.
C22_VerificationFailsClosed ==
  (http.pc = "done" /\ (~http.env.supabase \/ http.env.error))
    => http.response.statusCode # 200

\* --------------------------------------------------------- failed delivery
\* C28: when the send to the provider failed, processMessage has returned
\* success with a warning and the assistant message it saved is kept; the
\* step of processQueuedMessage that follows, when its data-service calls
\* succeed, completes the event and appends a trace whose metadata hold
\* that result with its warning.
C28_UndeliveredCompletes ==
  [][\A p \in Workers :
       (/\ worker[p].pc = "sent"
        /\ worker[p].result[1].warning
        /\ worker'[p].pc # "sent"
        /\ faults' = faults)
         => LET id == CurrentId(p)
                r == worker[p].result[1]
                traces == message_processing_status'[id]
            IN /\ r.success
               /\ r.messageId \in 1..Len(messages')
               /\ messages'[r.messageId] = AssistantMessage
               /\ message_queue'[id].status = "completed"
               /\ traces[Len(traces)]
                    = Trace(id, "response_sent", "completed", <<r>>)]_vars

\* An event whose reply could not be delivered is completed, with its
\* assistant message and the trace of the result and its warning.
C28_Witness ==
  \E id \in 1..Len(message_queue) :
     /\ message_queue[id].status = "completed"
     /\ \E k \in 1..Len(message_processing_status[id]) :
          LET t == message_processing_status[id][k] IN
          /\ t.stage = "response_sent"
          /\ t.metadata # <<>>
          /\ t.metadata[1].success
          /\ t.metadata[1].warning
          /\ messages[t.metadata[1].messageId] = AssistantMessage

\* C29: however often a queued event is processed, messages holds at most
\* one user row with its provider message id and at most one reply for it
\* was sent to the provider.
C29_IdempotentSideEffects ==
  \A id \in 1..Len(message_queue) :
     /\ Cardinality({k \in 1..Len(messages) : messages[k] = UserMessage(id)}) <= 1
     /\ Cardinality({k \in 1..Len(message_processing_status[id]) :
                       LET t == message_processing_status[id][k]
                       IN /\ t.stage = "response_sent"
                          /\ t.metadata # <<>>
                          /\ t.metadata[1].success
                          /\ ~t.metadata[1].warning}) <= 1

\* ------------------------------------------------------------ data deletion
\* C30: a signed_request whose signature is not the HMAC-SHA256 of its
\* payload under the app secret is refused: no deletion is initiated, the
\* response is not 200 and holds no confirmation code.
C30_DeletionVerifiesSignature ==
  (/\ http.pc = "done"
   /\ http.req.param
   /\ http.req.signed_request.signature
        # Hmac("sha256", http.req.signed_request.payload, AppSecret))
    => /\ http.initiated = <<>>
       /\ http.response.statusCode # 200
       /\ http.response.confirmation_code = ""

C32_NoConnectionFails ==
  \A id \in 1..Len(message_queue) :
     LET traces == message_processing_status[id]
         last == traces[Len(traces)]
     IN (/\ traces # <<>>
         /\ last.stage = "response_sent"
         /\ last.metadata[1].error = "No connection found")
          => message_queue[id].status # "completed"

\* -------------------------------------------------------------------- retry
\* C33: retryWithBackoff invokes fn at most maxRetries + 1 times; every
\* invocation before the last one failed with an error shouldRetry
\* accepts; when it returns, the last invocation is the first that
\* succeeded; when it throws, it throws the error of the last invocation,
\* which was invocation maxRetries + 1 or one shouldRetry refuses.
C33_RetryTerminates ==
  http.pc = "done" =>
    LET r == http.result IN
    /\ r.calls \in 1..(http.maxRetries + 1)
    /\ \A k \in 1..(r.calls - 1) :
          /\ http.script[k] # NoError
          /\ ShouldRetry(http.policy, http.script[k])
    /\ r.ok => http.script[r.calls] = NoError
    /\ ~r.ok =>
         /\ r.error = http.script[r.calls]
         /\ r.error # NoError
         /\ \/ r.calls = http.maxRetries + 1
            \/ ~ShouldRetry(http.policy, r.error)

\* With the default of three retries fn failed four times with an error
\* shouldRetry accepts, and the error was thrown after the fourth call.
C33_Witness ==
  /\ http.pc = "done"
  /\ http.maxRetries = DefaultMaxRetries
  /\ ~http.result.ok
  /\ http.result.calls = DefaultMaxRetries + 1
  /\ ShouldRetry(http.policy, http.result.error)

C35_SweepDeletesExpiredOnly ==
  http.pc = "done" =>
    LET expired == {i \in 1..Len(http.before) :
                      http.before[i].expires_at < http.now}
    IN /\ http.ok =>
            /\ user_sessions
                 = SelectSeq(http.before,
                             LAMBDA row : row.expires_at >= http.now)
            /\ http.count = Cardinality(expired)
            /\ Len(user_sessions) = Len(http.before) - http.count
       /\ ~http.ok => user_sessions = http.before

\* Of two sessions that had expired, the one an event then extended is
\* kept by the sweep and the other one is deleted.
C35_Witness ==
  /\ http.pc = "done"
  /\ http.ok
  /\ http.count = 1
  /\ Len(http.before) = 2
  /\ \E i \in 1..2 :
        /\ http.before[i].last_interaction >= 0
        /\ http.before[i].expires_at
             = http.before[i].last_interaction + SESSION_EXPIRY_HOURS
        /\ user_sessions = <<http.before[i]>>

\* ------------------------------------------------------- ends of an attempt
\* C36: when processQueuedMessage returns or throws after it claimed the
\* event, the event is not in status processing.
C36_NoProcessingAfterAttempt ==
  [][\A p \in Workers :
       (/\ worker[p].pc \in {"fetch", "started", "sent", "failed", "requeue"}
        /\ worker'[p].pc \in {"idle", "mark"})
         => message_queue'[CurrentId(p)].status # "processing"]_vars

\* C37: with the drain called again and again, the event is in the end
\* completed, or failed or pending with retry_count = 3, and stays so; it
\* is never claimed more than three times.
C37_EventuallyParked ==
  /\ [](message_queue[1].retry_count <= RetryLimit)
  /\ <>[](\/ message_queue[1].status = "completed"
          \/ /\ message_queue[1].status \in {"failed", "pending"}
             /\ message_queue[1].retry_count = RetryLimit)

\* C38: the participant has at most one session, also when two calls of
\* getOrCreateSession run concurrently, and both callers use it.
C38_OneSession ==
  /\ Len(user_sessions) <= 1
  /\ \A c \in Callers : worker[c].session \in {0, 1}

C40_RetriesBounded ==
  /\ http.calls <= http.maxRetries + 1
  /\ http.pc = "thrown" => http.error /\ ~http.loading

====
